---- MODULE Spec2Model ----
(***************************************************************************)
(* Convolutional geometry of the ae-wavenet model assemblers.              *)
(*                                                                         *)
(* AutoEncoder (autoencoder_model.py) and MfccInverter (mfcc_inverter.py)  *)
(* build a chain of virtual-convolution (VC) nodes, resolve grid ranges    *)
(* over it in _init_geometry and store lengths and trim pairs.  The vconv  *)
(* module itself (GridRange, input_range, output_range, compute_inputs)    *)
(* is modelled from its written description: ranges are half-open index    *)
(* intervals <<lo, hi>> of the tensor they describe, a stage maps output   *)
(* index j to the input window starting left_wing_size before j * stride.  *)
(***************************************************************************)
EXTENDS Integers, Sequences, FiniteSets, TLC

\* ------------------------------------------------------------------ bounds

\* largest kernel_size, stride and dilation of a generated stage
MaxK == 2
MaxS == 2
MaxD == 2
\* largest batch_win_size handed to _init_geometry
MaxW == 2
\* longest chain and longest requested range of the resolver round trips
MaxChain == 2
MaxLen == 3
\* largest n_samples and largest number of rows of one encoded batch
MaxSamples == 4
MaxRows == 2

\* the upper bound standing for "unconstrained available input"
Unconstrained == 100000

\* ------------------------------------------------------------------ vconv

Min2(a, b) == IF a <= b THEN a ELSE b

\* one VC node: a stage's kernel_size, stride, dilation and its left wing
VirtualConv(k, s, d, lw) ==
    [kernel_size |-> k, stride |-> s, dilation |-> d, left_wing_size |-> lw]

\* effective_kernel_span = (kernel_size - 1) * dilation + 1
kernel_span(vc) == (vc.kernel_size - 1) * vc.dilation + 1

\* in = (out - 1) * stride + effective_kernel_span
input_length(vc, n) == (n - 1) * vc.stride + kernel_span(vc)

\* out = floor((in - effective_kernel_span) / stride) + 1
output_length(vc, m) == ((m - kernel_span(vc)) \div vc.stride) + 1

GridRange(lb, sub, stride) ==
    [err |-> "none", lb |-> lb, sub |-> sub, stride |-> stride]

\* the outcome of a resolution that raised instead of returning a range
RangeError(kind) == [err |-> kind, lb |-> <<0, 0>>, sub |-> <<0, 0>>, stride |-> 0]

sub_length(gr) == gr.sub[2] - gr.sub[1]

\* sub_range is a non-empty part of lower_bound
valid(gr) ==
    /\ gr.err = "none"
    /\ sub_length(gr) > 0
    /\ gr.lb[1] <= gr.sub[1]
    /\ gr.sub[2] <= gr.lb[2]

\* first input index a stage reads for the output starting at index lo
in_lo(vc, lo) == lo * vc.stride - vc.left_wing_size

\* the only element of a one-element set (binds a computed value once)
The(S) == CHOOSE x \in S : TRUE

\* the input range one stage needs to produce the output range out
input_gr(vc, out) ==
    IF out.err # "none" THEN out
    ELSE IF ~valid(out) THEN RangeError("geometry")
    ELSE LET lb  == <<in_lo(vc, out.lb[1]),
                      in_lo(vc, out.lb[1]) + input_length(vc, out.lb[2] - out.lb[1])>>
             sub == <<in_lo(vc, out.sub[1]),
                      in_lo(vc, out.sub[1]) + input_length(vc, sub_length(out))>>
             in  == GridRange(lb, sub, out.stride)
         IN IF valid(in) THEN in ELSE RangeError("geometry")

vc_input_gr(vc, out) == The({ input_gr(vc, o) : o \in {out} })

aligned(vc, lo) == (lo + vc.left_wing_size) % vc.stride = 0

out_lo(vc, lo) == (lo + vc.left_wing_size) \div vc.stride

\* the output range one stage produces from the input range in
output_gr(vc, in) ==
    IF in.err # "none" THEN in
    ELSE IF ~valid(in) THEN RangeError("geometry")
    ELSE IF ~(aligned(vc, in.sub[1]) /\ aligned(vc, in.lb[1])) THEN RangeError("alignment")
    ELSE LET lb  == <<out_lo(vc, in.lb[1]),
                      out_lo(vc, in.lb[1]) + output_length(vc, in.lb[2] - in.lb[1])>>
             sub == <<out_lo(vc, in.sub[1]),
                      out_lo(vc, in.sub[1]) + output_length(vc, sub_length(in))>>
             out == GridRange(lb, sub, in.stride)
         IN IF valid(out) THEN out ELSE RangeError("geometry")

vc_output_gr(vc, in) == The({ output_gr(vc, i) : i \in {in} })

\* walk from node e back to node b; the result is the input of node b
RECURSIVE input_range(_, _, _, _)
input_range(chain, b, e, out) ==
    IF e < b THEN out
    ELSE input_range(chain, b, e - 1, vc_input_gr(chain[e], out))

\* walk from node b forward to node e; the result is the output of node e
RECURSIVE output_range(_, _, _, _)
output_range(chain, b, e, in) ==
    IF b > e THEN in
    ELSE output_range(chain, b + 1, e, vc_output_gr(chain[b], in))

\* input_length applied stage by stage from node e back to node b
RECURSIVE chain_input_length(_, _, _, _)
chain_input_length(chain, b, e, n) ==
    IF e < b THEN n
    ELSE chain_input_length(chain, b, e - 1, input_length(chain[e], n))

\* ------------------------------------------------------------ stage sets

\* the kernel_size, stride, dilation triples a stage is drawn from: the
\* pointwise stage and the widest kernel, at the extreme strides and dilations
BaseStages ==
    { <<1, s, 1>> : s \in {1, MaxS} } \cup
    { <<MaxK, s, d>> : s \in {1, MaxS}, d \in {1, MaxD} }

\* the wing split is not fixed by the parameters: either the whole span lies
\* left of the output position (causal) or none of it
Stage(b, left) ==
    VirtualConv(b[1], b[2], b[3], IF left THEN (b[1] - 1) * b[3] ELSE 0)

WellFormedStages == { Stage(b, left) : b \in BaseStages, left \in BOOLEAN }

\* a stage whose parameters are inconsistent: an empty kernel
EmptyKernel == VirtualConv(0, 1, 1, 0)

Stages == WellFormedStages \cup {EmptyKernel}

WellFormed(chain) == \A i \in 1..Len(chain) : chain[i].kernel_size >= 1

\* chains of n nodes with one wing convention, and the chains of equal stages
\* with one node replaced by the empty kernel
Chains(n) ==
    { [i \in 1..n |-> Stage(c[i], left)] : c \in [1..n -> BaseStages], left \in BOOLEAN }
    \cup
    { [i \in 1..n |-> IF i = p THEN EmptyKernel ELSE Stage(b, left)] :
      p \in 1..n, b \in BaseStages, left \in BOOLEAN }

\* ------------------------------------------------------------- the models

VARIABLES
    kind,       \* "AutoEncoder" or "MfccInverter"
    init_args,  \* the constructor configuration: bottleneck type, own stages
    dataset,    \* the dataset collaborator: its mfcc_vc node
    self,       \* what _initialize assigns: bn_type, bottleneck, decoder, vc, ...
    geo,        \* what _init_geometry stores on the model
    ups,        \* trim_ups_out, stored on the decoder
    node_gr,    \* input_gr stored on each chain node by compute_inputs
    rng,        \* the ranges of the last _init_geometry that stored a geometry
    err,        \* the exception the last operation raised, or "none"
    op,         \* the last operation
    ran,        \* what the last run read as trim_dec_out
    cb,         \* init_codebook: its locals, the data source, the bottleneck
    res         \* a resolver round trip: chain, nodes, request, results

vars == <<kind, init_args, dataset, self, geo, ups, node_gr, rng, err, op, ran, cb, res>>

BnTypes == {"vqvae", "vqvae-ema", "vae", "ae"}

\* the named waypoints into the chain; node 1 is the dataset's mfcc_vc
vc_map(knd) ==
    IF knd = "AutoEncoder"
    THEN [beg |-> 2, end |-> 2, last_upsample |-> 3, beg_grcc |-> 4, end_grcc |-> 4]
    ELSE [beg |-> 2, end |-> 2, last_upsample |-> 2, beg_grcc |-> 3, end_grcc |-> 3]

\* number of stages the model owns (encoder and decoder, without mfcc_vc)
OwnStages(knd) == vc_map(knd).end_grcc - 1

FullChain == <<dataset.mfcc_vc>> \o init_args.stages

Unset == RangeError("unset")

NoNodeGr == [i \in 1..4 |-> Unset]

NoGeo ==
    [set |-> FALSE, stale |-> FALSE, w |-> 0,
     enc_in_len |-> 0, enc_in_mel_len |-> 0, embed_len |-> 0, dec_in_len |-> 0,
     trim_dec_in |-> <<0, 0>>, trim_dec_out |-> <<0, 0>>]

NoUps == [set |-> FALSE, trim_ups_out |-> <<0, 0>>]

NoRng == [do |-> Unset, di |-> Unset, ei |-> Unset, mi |-> Unset,
          eo |-> Unset, uo |-> Unset]

NoSelf ==
    [initialized |-> FALSE, encoder |-> "unset", bn_type |-> "unset",
     bottleneck |-> "unset", objective |-> "unset", decoder |-> "unset",
     vc |-> "unset", parent_vc |-> "None"]

\* the names bound at module level in autoencoder_model.py
ModuleNames ==
    {"stderr", "md5", "np", "dumps", "torch", "nn", "loss", "kmeans", "ae_bn",
     "mfcc", "parse_tools", "vconv", "util", "vq_bn", "vqema_bn", "vae_bn",
     "enc", "dec", "AutoEncoder"}

\* evaluating `raise <name>(...)`: the exception that propagates
raise(name) == IF name \in ModuleNames THEN name ELSE "NameError"

\* the bottleneck/objective pair _initialize selects for a bottleneck type
select_bottleneck(bn_type) ==
    CASE bn_type = "vqvae"     -> <<"VQ", "VQLoss">>
      [] bn_type = "vqvae-ema" -> <<"VQEMA", "VQEMALoss">>
      [] bn_type = "vae"       -> <<"VAE", "SGVBLoss">>
      [] bn_type = "ae"        -> <<"AE", "AELoss">>
      [] OTHER                 -> <<"unset", "unset">>

\* AutoEncoder._initialize: the attributes after it returned or raised
AE_initialize(args) ==
    LET bn == select_bottleneck(args.bn_type)
        enc0 == [NoSelf EXCEPT !.encoder = "Encoder"]
    IN IF bn[1] = "unset"
       THEN [attrs |-> enc0, raised |-> raise("InvalidArgument")]
       ELSE [attrs |-> [enc0 EXCEPT !.initialized = TRUE,
                                    !.bottleneck = bn[1], !.objective = bn[2],
                                    !.bn_type = args.bn_type,
                                    !.decoder = "WaveNet(parent_vc=encoder.vc.end)",
                                    !.vc = "decoder.vc"],
             raised |-> "none"]

\* MfccInverter._initialize
MI_initialize(args) ==
    [attrs |-> [NoSelf EXCEPT !.initialized = TRUE, !.bn_type = "none",
                              !.decoder = "WaveNet(parent_vc=None)",
                              !.objective = "RecLoss"],
     raised |-> "none"]

initialize(knd, args) ==
    IF knd = "AutoEncoder" THEN AE_initialize(args) ELSE MI_initialize(args)

\* ------------------------------------------------------------ _init_geometry

\* the desired output window: GridRange((0, 100000), (0, w), 1)
window(w) == GridRange(<<0, Unconstrained>>, <<0, w>>, 1)

\* AE_ranges with uo resolved up to the decoder's last node instead of the last
\* upsampling node
AE_ranges_uo_end_grcc(chain, vcm, w) ==
    LET mfcc_vc == vcm.beg - 1
        do == window(w)
    IN The({ [do |-> do,
              di |-> input_range(chain, vcm.beg_grcc, vcm.end_grcc, do),
              ei |-> ei,
              mi |-> input_range(chain, mfcc_vc + 1, vcm.end_grcc, do),
              eo |-> output_range(chain, mfcc_vc, vcm.end, ei),
              uo |-> output_range(chain, mfcc_vc, vcm.end_grcc, ei)] :
             ei \in {input_range(chain, mfcc_vc, vcm.end_grcc, do)} })

\* AutoEncoder._init_geometry, the resolver calls; node 1 is mfcc_vc
AE_ranges(chain, vcm, w) ==
    LET mfcc_vc == vcm.beg - 1
        do == window(w)
    IN The({ [do |-> do,
              di |-> input_range(chain, vcm.beg_grcc, vcm.end_grcc, do),
              ei |-> ei,
              mi |-> input_range(chain, mfcc_vc + 1, vcm.end_grcc, do),
              eo |-> output_range(chain, mfcc_vc, vcm.end, ei),
              uo |-> output_range(chain, mfcc_vc, vcm.last_upsample, ei)] :
             ei \in {input_range(chain, mfcc_vc, vcm.end_grcc, do)} })

\* the first resolver call that raised, in call order, or "none"
AE_raised(r) ==
    CASE r.di.err # "none" -> r.di.err
      [] r.ei.err # "none" -> r.ei.err
      [] r.mi.err # "none" -> r.mi.err
      [] r.eo.err # "none" -> r.eo.err
      [] r.uo.err # "none" -> r.uo.err
      [] OTHER -> "none"

\* AE_trim_dec_in with the operands of the start offset exchanged
AE_trim_dec_in_swapped(r) == <<r.ei.sub[1] - r.di.sub[1], r.di.sub[2] - r.ei.sub[1]>>

\* trims wav_enc_input to wav_dec_input
AE_trim_dec_in(r) == <<r.di.sub[1] - r.ei.sub[1], r.di.sub[2] - r.ei.sub[1]>>

\* trims the upsampled local conditioning tensor
AE_trim_ups_out(r) == <<r.di.sub[1] - r.uo.sub[1], r.di.sub[2] - r.uo.sub[1]>>

\* AE_trim_dec_out with the end offset taken against the end of di
AE_trim_dec_out_end(r) == <<r.do.sub[1] - r.di.sub[1], r.do.sub[2] - r.di.sub[2]>>

\* trims wav_dec_input to wav_dec_output
AE_trim_dec_out(r) == <<r.do.sub[1] - r.di.sub[1], r.do.sub[2] - r.di.sub[1]>>

\* AE_geometry with enc_in_len taken from the mel range mi
AE_geometry_mel(r, w) ==
    [set |-> TRUE, stale |-> FALSE, w |-> w,
     enc_in_len |-> sub_length(r.mi),
     enc_in_mel_len |-> sub_length(r.mi),
     embed_len |-> sub_length(r.eo),
     dec_in_len |-> sub_length(r.di),
     trim_dec_in |-> AE_trim_dec_in(r),
     trim_dec_out |-> AE_trim_dec_out(r)]

\* AutoEncoder._init_geometry, the assignments
AE_geometry(r, w) ==
    [set |-> TRUE, stale |-> FALSE, w |-> w,
     enc_in_len |-> sub_length(r.ei),
     enc_in_mel_len |-> sub_length(r.mi),
     embed_len |-> sub_length(r.eo),
     dec_in_len |-> sub_length(r.di),
     trim_dec_in |-> AE_trim_dec_in(r),
     trim_dec_out |-> AE_trim_dec_out(r)]

\* compute_inputs(node e, out): input_gr of every node from e back to the
\* root; a node whose range cannot be resolved keeps what it had
compute_inputs(chain, root, e, out, stored) ==
    [i \in 1..4 |->
        IF i >= root /\ i <= e
        THEN The({ IF gr.err = "none" THEN gr ELSE stored[i] :
                   gr \in {input_range(chain, i, e, out)} })
        ELSE stored[i]]

compute_inputs_raised(chain, root, e, out) == input_range(chain, root, e, out).err

\* VirtualConv.in_len(): the length of the node's stored input range
in_len(stored, i) == sub_length(stored[i])

\* MfccInverter._init_geometry, the ranges it reads back from the nodes
MI_ranges(chain, vcm, w, stored) ==
    LET mfcc_vc == vcm.beg - 1
    IN [do |-> window(w), di |-> stored[vcm.beg_grcc], ei |-> stored[mfcc_vc],
        mi |-> stored[mfcc_vc + 1], eo |-> Unset,
        uo |-> output_range(chain, mfcc_vc, vcm.beg_grcc - 1, stored[mfcc_vc])]

MI_trim_dec_in(di, wi) == <<di.sub[1] - wi.sub[1], di.sub[2] - wi.sub[1]>>

MI_trim_dec_out(end_gr, di) == <<end_gr.sub[1] - di.sub[1], end_gr.sub[2] - di.sub[1]>>

MI_trim_ups_out(stored, vcm) == <<0, in_len(stored, vcm.beg_grcc)>>

\* MfccInverter._init_geometry, the assignments
MI_geometry(stored, vcm, w) ==
    LET mfcc_vc == vcm.beg - 1
        di == stored[vcm.beg_grcc]
        wi == stored[mfcc_vc]
    IN [set |-> TRUE, stale |-> FALSE, w |-> w,
        enc_in_len |-> in_len(stored, mfcc_vc),
        enc_in_mel_len |-> in_len(stored, mfcc_vc + 1),
        embed_len |-> in_len(stored, mfcc_vc + 1),
        dec_in_len |-> in_len(stored, vcm.beg_grcc),
        trim_dec_in |-> MI_trim_dec_in(di, wi),
        trim_dec_out |-> MI_trim_dec_out(window(w), di)]

\* AE_init_geometry that keeps a geometry once stored, whatever the window
AE_init_geometry_cached(chain, isconn, w, old, oldups, oldrng, stored, r) ==
    IF ~isconn
    THEN [geo |-> old, ups |-> oldups, rng |-> oldrng,
          node_gr |-> stored, raised |-> "AttributeError"]
    ELSE IF AE_raised(r) # "none"
    THEN [geo |-> old, ups |-> oldups, rng |-> oldrng,
          node_gr |-> stored, raised |-> AE_raised(r)]
    ELSE [geo |-> IF old.set THEN [old EXCEPT !.w = w] ELSE AE_geometry(r, w),
          ups |-> IF old.set THEN oldups
                  ELSE [set |-> TRUE, trim_ups_out |-> AE_trim_ups_out(r)],
          rng |-> r, node_gr |-> stored, raised |-> "none"]

\* AE_init_geometry that assigns dec_in_len as soon as di is resolved, before
\* the remaining resolver calls
AE_init_geometry_early(chain, isconn, w, old, oldups, oldrng, stored, r) ==
    IF ~isconn
    THEN [geo |-> old, ups |-> oldups, rng |-> oldrng,
          node_gr |-> stored, raised |-> "AttributeError"]
    ELSE IF AE_raised(r) # "none"
    THEN [geo |-> IF r.di.err = "none"
                  THEN [old EXCEPT !.dec_in_len = sub_length(r.di)] ELSE old,
          ups |-> oldups, rng |-> oldrng,
          node_gr |-> stored, raised |-> AE_raised(r)]
    ELSE [geo |-> AE_geometry(r, w),
          ups |-> [set |-> TRUE, trim_ups_out |-> AE_trim_ups_out(r)],
          rng |-> r, node_gr |-> stored, raised |-> "none"]

\* AutoEncoder._init_geometry(w): what the call leaves behind
\* (old, oldups, oldrng: what was stored before; stored: the nodes' ranges)
AE_init_geometry(chain, isconn, w, old, oldups, oldrng, stored, r) ==
    IF ~isconn
    THEN [geo |-> old, ups |-> oldups, rng |-> oldrng,
          node_gr |-> stored, raised |-> "AttributeError"]
    ELSE IF AE_raised(r) # "none"
    THEN [geo |-> old, ups |-> oldups, rng |-> oldrng,
          node_gr |-> stored, raised |-> AE_raised(r)]
    ELSE [geo |-> AE_geometry(r, w),
          ups |-> [set |-> TRUE, trim_ups_out |-> AE_trim_ups_out(r)],
          rng |-> r, node_gr |-> stored, raised |-> "none"]

\* MfccInverter._init_geometry(w): what the call leaves behind
\* (now: the nodes' ranges after compute_inputs, bad: what it raised)
MI_init_geometry(chain, isconn, w, old, oldups, oldrng, now, bad) ==
    IF bad # "none"
    THEN [geo |-> old, ups |-> oldups, rng |-> oldrng,
          node_gr |-> now, raised |-> bad]
    ELSE IF ~isconn
    THEN [geo |-> old, ups |-> oldups, rng |-> oldrng,
          node_gr |-> now, raised |-> "AttributeError"]
    ELSE [geo |-> MI_geometry(now, vc_map("MfccInverter"), w),
          ups |-> [set |-> TRUE,
                   trim_ups_out |-> MI_trim_ups_out(now, vc_map("MfccInverter"))],
          rng |-> MI_ranges(chain, vc_map("MfccInverter"), w, now),
          node_gr |-> now, raised |-> "none"]

init_geometry(knd, chain, isconn, w, old, oldups, oldrng, stored) ==
    LET vcm == vc_map(knd)
        root == IF isconn THEN 1 ELSE 2
    IN IF knd = "AutoEncoder"
       THEN The({ AE_init_geometry(chain, isconn, w, old, oldups, oldrng, stored, r) :
                  r \in {AE_ranges(chain, vcm, w)} })
       ELSE The({ MI_init_geometry(chain, isconn, w, old, oldups, oldrng, now,
                      compute_inputs_raised(chain, root, vcm.end_grcc, window(w))) :
                  now \in {compute_inputs(chain, root, vcm.end_grcc, window(w), stored)} })

\* ------------------------------------------------------------------ actions

NoRan == [read |-> FALSE, stale |-> FALSE, trim |-> <<0, 0>>]

NoCb == [pc |-> "idle", n_samples |-> 0, e |-> 0, samples |-> <<>>,
         drawn |-> 0, rows |-> 0, c |-> 0, emb |-> "preset", ema |-> "preset"]

NoRes == [pc |-> "idle", chain |-> <<>>, b |-> 1, e |-> 0,
          req |-> Unset, inp |-> Unset, out |-> Unset]

connected == self.parent_vc # "None"

\* post_init that connects the chain and leaves out _init_geometry
post_init_no_geometry(knd, chain, w, old, oldups, oldrng, stored) ==
    [geo |-> old, ups |-> oldups, rng |-> oldrng, node_gr |-> stored, raised |-> "none"]

\* post_init: set_parent_vc(dataset.mfcc_vc), _init_geometry(window_batch_size)
post_init(knd, chain, w, old, oldups, oldrng, stored) ==
    init_geometry(knd, chain, TRUE, w, old, oldups, oldrng, stored)

\* post_init(dataset): splice the dataset's mfcc_vc above the first own node,
\* then _init_geometry(dataset.window_batch_size)
PostInit(w) ==
    /\ self.initialized
    /\ \E g \in {post_init(kind, FullChain, w, geo, ups, rng, node_gr)} :
          /\ geo' = g.geo
          /\ ups' = g.ups
          /\ rng' = g.rng
          /\ node_gr' = g.node_gr
          /\ err' = g.raised
    /\ self' = [self EXCEPT !.parent_vc = "mfcc_vc"]
    /\ op' = [name |-> "post_init", w |-> w]
    /\ UNCHANGED <<kind, init_args, dataset, ran, cb, res>>

\* _init_geometry(w) called again to change batch_win_size
InitGeometry(w) ==
    /\ self.initialized
    /\ \E g \in {init_geometry(kind, FullChain, connected, w, geo, ups, rng, node_gr)} :
          /\ geo' = g.geo
          /\ ups' = g.ups
          /\ rng' = g.rng
          /\ node_gr' = g.node_gr
          /\ err' = g.raised
    /\ op' = [name |-> "_init_geometry", w |-> w]
    /\ UNCHANGED <<kind, init_args, dataset, self, ran, cb, res>>

\* ---------------------------------------------------------------- lifecycle

\* __init__(opts, dataset): init_args, then _initialize
Construct ==
    /\ op.name = "none"
    /\ ~self.initialized
    /\ self' = initialize(kind, init_args).attrs
    /\ err' = initialize(kind, init_args).raised
    /\ op' = [name |-> "__init__", w |-> 0]
    /\ UNCHANGED <<kind, init_args, dataset, geo, ups, node_gr, rng, ran, cb, res>>

\* what __setstate__ leaves of the attributes _init_geometry had stored: a new
\* object (unpickling) has none, an existing one keeps them from the old chain
setstate_geo(fresh, old) ==
    IF fresh THEN NoGeo ELSE [old EXCEPT !.stale = old.set]

\* __setstate__(__getstate__()): init_args restored, _initialize replayed.
\* The encoder, decoder and their VC nodes are new; mfcc_vc is the dataset's.
SetState(fresh) ==
    /\ self.initialized
    /\ self' = initialize(kind, init_args).attrs
    /\ err' = initialize(kind, init_args).raised
    /\ geo' = setstate_geo(fresh, geo)
    /\ rng' = IF fresh THEN NoRng ELSE rng
    /\ ups' = NoUps
    /\ node_gr' = [NoNodeGr EXCEPT ![1] = node_gr[1]]
    /\ op' = [name |-> "__setstate__", w |-> 0]
    /\ UNCHANGED <<kind, init_args, dataset, ran, cb, res>>

\* run(vbatch), up to the slice of wav_dec_input: trim = self.trim_dec_out
Run ==
    /\ self.initialized
    /\ ran' = [read |-> geo.set, stale |-> geo.stale, trim |-> geo.trim_dec_out]
    /\ err' = IF geo.set THEN "none" ELSE "AttributeError"
    /\ op' = [name |-> "run", w |-> 0]
    /\ UNCHANGED <<kind, init_args, dataset, self, geo, ups, node_gr, rng, cb, res>>

\* ------------------------------------------------------------- init_codebook

VQTypes == {"vqvae", "vqvae-ema"}

\* the type test with 'vqvae-ema' left out
codebook_applies_vq_only(bn_type) == bn_type = "vqvae"

\* if self.bn_type not in ('vqvae', 'vqvae-ema'): raise RuntimeError
codebook_applies(bn_type) == bn_type \in VQTypes

\* the whole batch, not cut to the rows still missing
take_all(n_samples, e, rows) == rows

\* c = min(n_samples - e, ze.shape[0])
take(n_samples, e, rows) == Min2(n_samples - e, rows)

\* a row of np.empty((n_samples, k)) nothing was written to
EmptyRow == <<0, 0>>

\* samples[e:e + c,:] = ze[0:c,:] for the batch with number b
fill(samples, e, c, b) ==
    [i \in 1..Len(samples) |->
        IF i > e /\ i <= e + c THEN <<b, i - e>> ELSE samples[i]]

\* init_codebook(data_source, n_samples), up to the loop
InitCodebook(n) ==
    /\ self.initialized
    /\ cb.pc # "loop"
    /\ op' = [name |-> "init_codebook", w |-> 0]
    /\ IF codebook_applies(self.bn_type)
       THEN /\ err' = "none"
            /\ cb' = [cb EXCEPT !.pc = "loop", !.n_samples = n, !.e = 0,
                                !.samples = [i \in 1..n |-> EmptyRow],
                                !.drawn = 0, !.rows = 0, !.c = 0]
       ELSE /\ err' = "RuntimeError"
            /\ cb' = cb
    /\ UNCHANGED <<kind, init_args, dataset, self, geo, ups, node_gr, rng, ran, res>>

\* one pass of `while e != n_samples`: the next batch encodes to `rows` rows
SampleBatch(rows) ==
    /\ cb.pc = "loop"
    /\ cb.e # cb.n_samples
    /\ LET c == take(cb.n_samples, cb.e, rows)
       IN cb' = [cb EXCEPT !.drawn = cb.drawn + 1, !.rows = rows, !.c = c,
                           !.samples = fill(cb.samples, cb.e, c, cb.drawn + 1),
                           !.e = cb.e + c]
    /\ UNCHANGED <<kind, init_args, dataset, self, geo, ups, node_gr, rng, err, op, ran, res>>

\* the loop has ended: kmeans, then the codebook and the EMA accumulators
FitCodebook ==
    /\ cb.pc = "loop"
    /\ cb.e = cb.n_samples
    /\ cb' = [cb EXCEPT !.pc = "done", !.emb = "kmeans(samples)",
                        !.ema = IF self.bn_type = "vqvae-ema"
                                THEN "emb * ema_gamma_comp" ELSE cb.ema]
    /\ UNCHANGED <<kind, init_args, dataset, self, geo, ups, node_gr, rng, err, op, ran, res>>

\* --------------------------------------------------- resolver round trips

\* input_range(begin_node, end_node, desired_output_range)
ResolveInput ==
    /\ res.pc = "request"
    /\ res' = [res EXCEPT !.pc = "resolved",
                          !.inp = input_range(res.chain, res.b, res.e, res.req)]
    /\ UNCHANGED <<kind, init_args, dataset, self, geo, ups, node_gr, rng, err, op, ran, cb>>

\* output_range(begin_node, end_node, the input range just resolved)
ResolveOutput ==
    /\ res.pc = "resolved"
    /\ res' = [res EXCEPT !.pc = "done",
                          !.out = output_range(res.chain, res.b, res.e, res.inp)]
    /\ UNCHANGED <<kind, init_args, dataset, self, geo, ups, node_gr, rng, err, op, ran, cb>>

\* stage A (kernel=3, stride=1, dilation=1), stage B (kernel=2, stride=2,
\* dilation=1), desired output length 10 at B
ScenarioChain == <<VirtualConv(3, 1, 1, 0), VirtualConv(2, 2, 1, 0)>>
ScenarioRequest == GridRange(<<0, Unconstrained>>, <<0, 10>>, 1)

Requests ==
    { GridRange(<<0, Unconstrained>>, <<lo, lo + n>>, 1) : lo \in 0..1, n \in 0..MaxLen }

\* ------------------------------------------------------------ specification

Windows == 0..MaxW

Kinds == {"AutoEncoder", "MfccInverter"}

NoOp == [name |-> "none", w |-> 0]

\* a constructed model of either kind over any chain, not yet post_init'ed
InitModel ==
    /\ kind \in Kinds
    /\ \E ch \in Chains(OwnStages(kind) + 1) :
          /\ init_args = [bn_type |-> IF kind = "AutoEncoder" THEN "vqvae" ELSE "none",
                          stages |-> Tail(ch)]
          /\ dataset = [mfcc_vc |-> Head(ch)]
    /\ self = initialize(kind, init_args).attrs
    /\ geo = NoGeo
    /\ ups = NoUps
    /\ node_gr = NoNodeGr
    /\ rng = NoRng
    /\ err = "none"
    /\ op = [name |-> "__init__", w |-> 0]
    /\ ran = NoRan
    /\ cb = NoCb
    /\ res = NoRes

\* no model: a chain, two of its nodes and a desired output range
InitResolver ==
    /\ kind = "AutoEncoder"
    /\ init_args = [bn_type |-> "vqvae", stages |-> <<>>]
    /\ dataset = [mfcc_vc |-> EmptyKernel]
    /\ self = NoSelf
    /\ geo = NoGeo
    /\ ups = NoUps
    /\ node_gr = NoNodeGr
    /\ rng = NoRng
    /\ err = "none"
    /\ op = NoOp
    /\ ran = NoRan
    /\ cb = NoCb
    /\ \/ \E n \in 1..MaxChain : \E ch \in Chains(n) : \E e \in 1..n : \E b \in 1..e :
            \E rq \in Requests :
               res = [pc |-> "request", chain |-> ch, b |-> b, e |-> e,
                      req |-> rq, inp |-> Unset, out |-> Unset]
       \/ res = [pc |-> "request", chain |-> ScenarioChain, b |-> 1, e |-> 2,
                 req |-> ScenarioRequest, inp |-> Unset, out |-> Unset]

Init == InitModel \/ InitResolver

Next ==
    \/ \E w \in Windows : PostInit(w)
    \/ \E w \in Windows : InitGeometry(w)
    \/ ResolveInput
    \/ ResolveOutput

Spec == Init /\ [][Next]_vars

\* an object whose __init__ has not run yet, of either kind, with any
\* bottleneck type, over the chains of equal stages
InitLife ==
    /\ kind \in Kinds
    /\ \E b \in BaseStages, left \in BOOLEAN, t \in BnTypes \cup {"gmm"} :
          /\ init_args = [bn_type |-> IF kind = "AutoEncoder" THEN t ELSE "none",
                          stages |-> [i \in 1..OwnStages(kind) |-> Stage(b, left)]]
          /\ dataset = [mfcc_vc |-> Stage(b, left)]
    /\ self = NoSelf
    /\ geo = NoGeo
    /\ ups = NoUps
    /\ node_gr = NoNodeGr
    /\ rng = NoRng
    /\ err = "none"
    /\ op = NoOp
    /\ ran = NoRan
    /\ cb = NoCb
    /\ res = NoRes

NextLife ==
    \/ Construct
    \/ \E fresh \in BOOLEAN : SetState(fresh)
    \/ \E w \in Windows : PostInit(w)
    \/ Run

SpecLife == InitLife /\ [][NextLife]_vars

\* a constructed AutoEncoder with any recognized bottleneck type
InitCodebookModel ==
    /\ kind = "AutoEncoder"
    /\ \E t \in BnTypes :
          init_args = [bn_type |-> t,
                       stages |-> [i \in 1..OwnStages(kind) |-> Stage(<<1, 1, 1>>, TRUE)]]
    /\ dataset = [mfcc_vc |-> Stage(<<1, 1, 1>>, TRUE)]
    /\ self = initialize(kind, init_args).attrs
    /\ geo = NoGeo
    /\ ups = NoUps
    /\ node_gr = NoNodeGr
    /\ rng = NoRng
    /\ err = "none"
    /\ op = [name |-> "__init__", w |-> 0]
    /\ ran = NoRan
    /\ cb = NoCb
    /\ res = NoRes

NextCodebook ==
    \/ \E n \in 0..MaxSamples : InitCodebook(n)
    \/ \E rows \in 1..MaxRows : SampleBatch(rows)
    \/ FitCodebook

\* the loop runs in one thread to its end: a pass that can be taken is taken
SpecCodebook ==
    /\ InitCodebookModel
    /\ [][NextCodebook]_vars
    /\ WF_vars(\E rows \in 1..MaxRows : SampleBatch(rows))
    /\ WF_vars(FitCodebook)

\* ------------------------------------------------------------------ claims

GeometryOps == {"post_init", "_init_geometry"}

InPair(t, n) == 0 <= t[1] /\ t[1] <= t[2] /\ t[2] <= n

Contains(outer, inner) ==
    /\ outer.err = "none" /\ inner.err = "none"
    /\ outer.sub[1] <= inner.sub[1]
    /\ inner.sub[2] <= outer.sub[2]

C3_InputRangeExact ==
    /\ (res.pc # "request" /\ res.inp.err = "none") =>
          sub_length(res.inp) =
             chain_input_length(res.chain, res.b, res.e, sub_length(res.req))
    /\ (res.pc # "request" /\ res.chain = ScenarioChain /\ res.req = ScenarioRequest
          /\ res.b = 1 /\ res.e = 2) =>
          (res.inp.err = "none" /\ sub_length(res.inp) = 22)
    /\ geo.set =>
          /\ geo.enc_in_len =
                chain_input_length(FullChain, 1, vc_map(kind).end_grcc, geo.w)
          /\ geo.dec_in_len =
                chain_input_length(FullChain, vc_map(kind).beg_grcc,
                                   vc_map(kind).end_grcc, geo.w)

C3_Witness ==
    /\ res.pc = "resolved" /\ res.chain = ScenarioChain /\ res.req = ScenarioRequest
    /\ sub_length(res.inp) = 22

\* the geometry a freshly constructed and connected model stores for w
FreshGeometry(w) ==
    init_geometry(kind, FullChain, TRUE, w, NoGeo, NoUps, NoRng, NoNodeGr)

NonPositive(chain, e, w) ==
    \/ w <= 0
    \/ \E i \in 1..e : chain_input_length(chain, i, e, w) <= 0

\* C8: a geometry resolution in which a stage resolves to a zero or negative
\* input length raises a geometry error, and a resolution that raises stores no
\* length and no trim pair: what was stored before is unchanged.
C8_FailureStoresNothing ==
    [][op'.name \in GeometryOps =>
         /\ (self'.parent_vc # "None" /\ NonPositive(FullChain, vc_map(kind).end_grcc, op'.w))
                => err' = "geometry"
         /\ err' # "none" => (geo' = geo /\ ups' = ups)]_vars

C8_Witness ==
    /\ err = "geometry" /\ op.name = "_init_geometry" /\ op.w = 1
    /\ geo.set /\ geo.w = MaxW /\ ~WellFormed(FullChain)

C5_SetStateDefinesGeometry ==
    /\ (op.name = "__setstate__" /\ err = "none") =>
          (geo.set /\ ~geo.stale /\ ups.set)
    /\ op.name = "run" => (ran.read /\ ~ran.stale)

\* C5 amended: __setstate__ rebuilds the chain unconnected and stores no
\* geometry (a new object has none, an existing one keeps the pairs of its old
\* chain, the new decoder has no trim_ups_out); post_init that returns stores
\* the geometry of the connected chain; run reads what is stored, so it reads
\* a pair _init_geometry produced on the connected chain exactly when post_init
\* has returned since the last _initialize.
C5_GeometryOnlyAfterPostInit ==
    /\ op.name = "__setstate__" =>
          (self.parent_vc = "None" /\ ~ups.set /\ (geo.set => geo.stale))
    /\ (op.name = "post_init" /\ err = "none") =>
          (geo.set /\ ~geo.stale /\ ups.set /\ geo.w = op.w)
    /\ (geo.set /\ ~geo.stale) =>
          (self.parent_vc = "mfcc_vc" /\ geo = FreshGeometry(geo.w).geo)
    /\ op.name = "run" =>
          /\ ran.read = geo.set
          /\ ran.stale = geo.stale
          /\ ran.trim = geo.trim_dec_out
          /\ (err = "AttributeError") = ~geo.set

C5_Witness ==
    /\ op.name = "run" /\ err = "AttributeError" /\ ~ran.read
    /\ self.initialized /\ self.parent_vc = "None" /\ ~ups.set

\* C6: init_codebook on a bottleneck type other than 'vqvae' and 'vqvae-ema'
\* raises the usage error before anything else: no batch is drawn, the codebook
\* and the EMA accumulators are unchanged; for the two VQ types the usage
\* error is never raised.
C6_UsageError ==
    /\ [][(op'.name = "init_codebook" /\ cb.pc # "loop") =>
            IF self.bn_type \in {"vqvae", "vqvae-ema"}
            THEN err' = "none" /\ cb'.pc = "loop"
            ELSE err' = "RuntimeError" /\ cb' = cb]_vars
    /\ [](self.bn_type \notin {"vqvae", "vqvae-ema"} =>
            (cb.drawn = 0 /\ cb.emb = "preset" /\ cb.ema = "preset" /\ cb.pc = "idle"))
    /\ [](self.bn_type \in {"vqvae", "vqvae-ema"} => err # "RuntimeError")

C6_Witness ==
    /\ op.name = "init_codebook" /\ err = "RuntimeError"
    /\ self.bn_type = "vae" /\ cb = NoCb

\* C7: _initialize with a bottleneck type outside the four recognized ones
\* raises the configuration error (InvalidArgument) with no decoder built and
\* bn_type, decoder and vc unassigned; for each recognized type one
\* bottleneck/objective pair is selected, bn_type records the type and the
\* decoder is built on the encoder's end node.
C7_ConfigurationError ==
    (kind = "AutoEncoder" /\ op.name = "__init__") =>
        IF init_args.bn_type \in BnTypes
        THEN /\ err = "none"
             /\ <<self.bottleneck, self.objective>> \in
                   {<<"VQ", "VQLoss">>, <<"VQEMA", "VQEMALoss">>,
                    <<"VAE", "SGVBLoss">>, <<"AE", "AELoss">>}
             /\ self.bn_type = init_args.bn_type
             /\ self.decoder = "WaveNet(parent_vc=encoder.vc.end)"
        ELSE /\ err = "InvalidArgument"
             /\ self.decoder = "unset" /\ self.bn_type = "unset" /\ self.vc = "unset"

\* rows 1..e of samples are written, in batch order, each batch from its first
\* row on; rows e+1.. are untouched
Collected ==
    /\ \A i \in 1..Len(cb.samples) : (cb.samples[i] # EmptyRow) = (i <= cb.e)
    /\ cb.e >= 1 => cb.samples[1] = <<1, 1>>
    /\ \A i \in 1..(cb.e - 1) :
          \/ cb.samples[i + 1] = <<cb.samples[i][1], cb.samples[i][2] + 1>>
          \/ cb.samples[i + 1] = <<cb.samples[i][1] + 1, 1>>
    /\ cb.e >= 1 => cb.samples[cb.e][1] = cb.drawn

\* C9: for a VQ model and n_samples >= 0 the sampling loop ends with exactly
\* n_samples rows: 0 <= e <= n_samples throughout, e grows with every batch,
\* a batch contributes its first min(n_samples - e, rows) rows at e .. e+c-1,
\* no batch is drawn once e = n_samples, and the codebook is overwritten only
\* after the loop.
C9_SamplingLoop ==
    /\ [](cb.pc # "idle" =>
            /\ 0 <= cb.e /\ cb.e <= cb.n_samples
            /\ Len(cb.samples) = cb.n_samples
            /\ Collected
            /\ cb.pc = "done" => cb.e = cb.n_samples)
    /\ [][cb'.drawn > cb.drawn =>
            /\ cb.e < cb.n_samples
            /\ cb'.drawn = cb.drawn + 1
            /\ cb'.c = Min2(cb.n_samples - cb.e, cb'.rows)
            /\ cb'.c >= 1
            /\ cb'.e = cb.e + cb'.c
            /\ \A i \in 1..cb.e : cb'.samples[i] = cb.samples[i]]_vars
    /\ [][cb'.emb # cb.emb => (cb.pc = "loop" /\ cb.e = cb.n_samples /\ cb'.pc = "done")]_vars
    /\ (cb.pc = "loop") ~> (cb.pc = "done")

C9_Witness ==
    /\ cb.pc = "done" /\ cb.n_samples = MaxSamples /\ cb.drawn >= 2
    /\ cb.rows = MaxRows /\ cb.c < cb.rows
    /\ self.bn_type = "vqvae-ema" /\ cb.ema # "preset"

====
